---- MODULE Spec2Model ----
(***************************************************************************)
(* A model of danielcny22/ts-calculator: the terminal prompt loop of       *)
(* src/src/index.ts, the browser form of src/web/app.js (compiled from     *)
(* src/unnamed/part_000) and the operation-first prompt loop of            *)
(* src/src/calculator.ts, with their arithmetic functions and their        *)
(* calculation histories.                                                  *)
(*                                                                         *)
(* Text typed by the user is a sequence of one-character strings, so that  *)
(* parseFloat, trim and toLowerCase are computed character by character.   *)
(* Text produced by the program is a string, built with \o the way the     *)
(* template literals build it.  A JavaScript number is a record            *)
(* [n |-> numerator, d |-> denominator] in lowest terms: d > 0 is a finite *)
(* value, 1/0 and -1/0 are Infinity and -Infinity, 0/0 is NaN.  +0 and -0  *)
(* are one value: the programs only compare them with === 0 and print     *)
(* them, and both do the same for either zero.                             *)
(***************************************************************************)
EXTENDS Integers, Sequences, FiniteSets, TLC

VARIABLES
    deployment,          \* which program is running: "terminal" (index.ts), "web" (app.js),
                         \* "readme" (calculator.ts), "both" (index.ts and app.js side by
                         \* side) or "functions" (the arithmetic functions called directly)
    pc,                  \* index.ts: the prompt the loop is suspended at
    num1,                \* index.ts performCalculation: let num1
    num2,                \* index.ts performCalculation: let num2
    calculationHistory,  \* index.ts: const calculationHistory
    out,                 \* the lines console.log printed during the last step
    rlClosed,            \* index.ts: whether rl.close() has been called
    pending,             \* index.ts: the questions given to rl.question and not yet answered
    justCleared,         \* index.ts main: the last continuation answer took the 'clear' branch
    webHistory,          \* app.js: const calculationHistory
    num1Value,           \* app.js: #num1 .value
    num2Value,           \* app.js: #num2 .value
    resultText,          \* app.js: #result .textContent
    resultClass,         \* app.js: #result .className
    historyList,         \* app.js: the children of #historyList
    webInvoked,          \* app.js: the arithmetic functions called during the last step
    calcPc,              \* calculator.ts: the prompt the loop is suspended at
    calcOperation,       \* calculator.ts calculator: const operation
    calcNum1,            \* calculator.ts calculator: const num1
    calcOut,             \* calculator.ts: the lines console.log printed during the last step
    calcRlClosed,        \* calculator.ts: whether rl.close() has been called
    applied              \* the last direct call of an arithmetic function and its outcome

termVars == <<pc, num1, num2, calculationHistory, out, rlClosed, justCleared, pending>>
webVars == <<webHistory, num1Value, num2Value, resultText, resultClass, historyList, webInvoked>>
calcVars == <<calcPc, calcOperation, calcNum1, calcOut, calcRlClosed>>
vars == <<deployment, termVars, webVars, calcVars, applied>>

\* What a step of one program leaves alone: the other programs.  Side by
\* side, index.ts and app.js are two processes that step together.
TerminalRuns == deployment \in {"terminal", "both"}
WebRuns == deployment \in {"web", "both"}
TerminalFrame ==
    /\ UNCHANGED <<deployment, calcVars, applied>>
    /\ IF deployment = "both" THEN TRUE ELSE UNCHANGED webVars
WebFrame ==
    /\ UNCHANGED <<deployment, calcVars, applied>>
    /\ IF deployment = "both" THEN TRUE ELSE UNCHANGED termVars

(***************************************************************************)
(* Bounds.                                                                 *)
(***************************************************************************)
MaxHistory == 2

(***************************************************************************)
(* Characters and strings.                                                 *)
(***************************************************************************)
Digits == <<"0", "1", "2", "3", "4", "5", "6", "7", "8", "9">>
UpperCase == <<"A", "B", "C", "D", "E", "F", "G", "H", "I", "J", "K", "L", "M",
               "N", "O", "P", "Q", "R", "S", "T", "U", "V", "W", "X", "Y", "Z">>
LowerCase == <<"a", "b", "c", "d", "e", "f", "g", "h", "i", "j", "k", "l", "m",
               "n", "o", "p", "q", "r", "s", "t", "u", "v", "w", "x", "y", "z">>
WhiteSpace == {" ", "\t", "\n", "\r"}

IsDigit(c) == \E i \in 1..10 : Digits[i] = c
DigitValue(c) == (CHOOSE i \in 1..10 : Digits[i] = c) - 1

\* The string a sequence of characters spells.
RECURSIVE Join(_)
Join(s) == IF s = <<>> THEN "" ELSE Head(s) \o Join(Tail(s))

LowerChar(c) ==
    IF \E i \in 1..26 : UpperCase[i] = c
    THEN LowerCase[CHOOSE i \in 1..26 : UpperCase[i] = c]
    ELSE c

\* String.prototype.toLowerCase
toLowerCase(s) == [i \in 1..Len(s) |-> LowerChar(s[i])]

RECURSIVE TrimStart(_)
TrimStart(s) ==
    IF s # <<>> /\ Head(s) \in WhiteSpace THEN TrimStart(Tail(s)) ELSE s

RECURSIVE TrimEnd(_)
TrimEnd(s) ==
    IF s # <<>> /\ s[Len(s)] \in WhiteSpace
    THEN TrimEnd(SubSeq(s, 1, Len(s) - 1))
    ELSE s

\* String.prototype.trim
trim(s) == TrimEnd(TrimStart(s))

(***************************************************************************)
(* Numbers.                                                                *)
(***************************************************************************)
Abs(x) == IF x < 0 THEN -x ELSE x
Sign(x) == IF x < 0 THEN -1 ELSE IF x > 0 THEN 1 ELSE 0

RECURSIVE Gcd(_, _)
Gcd(a, b) == IF b = 0 THEN a ELSE Gcd(b, a % b)

\* The number n/d (d >= 0) in lowest terms.
Num(n, d) ==
    IF d = 0 THEN [n |-> Sign(n), d |-> 0]
    ELSE LET g == Gcd(Abs(n), d) IN [n |-> n \div g, d |-> d \div g]

NaN == [n |-> 0, d |-> 0]
Infinity == [n |-> 1, d |-> 0]
Zero == [n |-> 0, d |-> 1]
\* A local that has been declared and not assigned yet.
Undefined == [n |-> 0, d |-> -1]

isNaN(x) == x = NaN
Neg(x) == [n |-> -x.n, d |-> x.d]

\* a + b of IEEE-754: Infinity + -Infinity is NaN.
Plus(a, b) ==
    IF isNaN(a) \/ isNaN(b) THEN NaN
    ELSE IF a.d = 0 /\ b.d = 0 THEN (IF a.n = b.n THEN a ELSE NaN)
    ELSE IF a.d = 0 THEN a
    ELSE IF b.d = 0 THEN b
    ELSE Num(a.n * b.d + b.n * a.d, a.d * b.d)

\* a * b of IEEE-754: 0 * Infinity is NaN.
Times(a, b) == Num(a.n * b.n, a.d * b.d)

\* a / b of IEEE-754 for b other than zero: Infinity / Infinity is NaN.
Quotient(a, b) == Num(a.n * b.d * Sign(b.n), a.d * Abs(b.n))

RECURSIVE NatToString(_)
NatToString(n) ==
    IF n < 10 THEN Digits[n + 1]
    ELSE NatToString(n \div 10) \o Digits[(n % 10) + 1]

\* The decimal digits of r/d (0 <= r < d) after the point.  The operands of
\* the model keep every quotient a terminating decimal.
RECURSIVE FractionDigits(_, _)
FractionDigits(r, d) ==
    IF r = 0 THEN ""
    ELSE Digits[((r * 10) \div d) + 1] \o FractionDigits((r * 10) % d, d)

\* Number::toString, as a template literal applies it to ${x}.
NumberToString(x) ==
    IF isNaN(x) THEN "NaN"
    ELSE IF x.d = 0 THEN (IF x.n < 0 THEN "-Infinity" ELSE "Infinity")
    ELSE LET a == Abs(x.n)
             r == a % x.d
         IN (IF x.n < 0 THEN "-" ELSE "")
            \o NatToString(a \div x.d)
            \o (IF r = 0 THEN "" ELSE "." \o FractionDigits(r, x.d))

(***************************************************************************)
(* parseFloat: leading white space is skipped, then the longest prefix     *)
(* that is a decimal literal (sign, digits, point, digits, or Infinity) is *)
(* converted and the rest of the text ignored.  Exponents are not          *)
(* modelled: no text of the model has a digit followed by e or E.          *)
(***************************************************************************)
RECURSIVE TakeDigits(_)
TakeDigits(s) ==
    IF s # <<>> /\ IsDigit(Head(s)) THEN <<Head(s)>> \o TakeDigits(Tail(s)) ELSE <<>>

RECURSIVE DigitsToNat(_)
DigitsToNat(ds) ==
    IF ds = <<>> THEN 0
    ELSE DigitsToNat(SubSeq(ds, 1, Len(ds) - 1)) * 10 + DigitValue(ds[Len(ds)])

RECURSIVE Pow10(_)
Pow10(k) == IF k = 0 THEN 1 ELSE 10 * Pow10(k - 1)

StartsWith(s, p) == Len(s) >= Len(p) /\ SubSeq(s, 1, Len(p)) = p

InfinityText == <<"I", "n", "f", "i", "n", "i", "t", "y">>

parseFloat(text) ==
    LET t == TrimStart(text)
        signed == t # <<>> /\ Head(t) \in {"+", "-"}
        sgn == IF signed /\ Head(t) = "-" THEN -1 ELSE 1
        body == IF signed THEN Tail(t) ELSE t
        ip == TakeDigits(body)
        afterInt == SubSeq(body, Len(ip) + 1, Len(body))
        hasPoint == afterInt # <<>> /\ Head(afterInt) = "."
        fp == IF hasPoint THEN TakeDigits(Tail(afterInt)) ELSE <<>>
    IN IF StartsWith(body, InfinityText) THEN Num(sgn, 0)
       ELSE IF ip = <<>> /\ fp = <<>> THEN NaN
       ELSE Num(sgn * (DigitsToNat(ip) * Pow10(Len(fp)) + DigitsToNat(fp)),
                Pow10(Len(fp)))


(***************************************************************************)
(* The arithmetic functions.  A call either returns a value or throws an   *)
(* Error with a message.                                                   *)
(***************************************************************************)
Return(v) == [threw |-> FALSE, value |-> v, message |-> ""]
Throw(m) == [threw |-> TRUE, value |-> NaN, message |-> m]

add(a, b) == Plus(a, b)
subtract(a, b) == Plus(a, Neg(b))
multiply(a, b) == Times(a, b)

\* divide with the test made on the dividend.
divide_ChecksDividend(a, b) ==
    IF a = Zero THEN Throw("Cannot divide by zero!") ELSE Return(Quotient(a, b))

divide(a, b) ==
    IF b = Zero THEN Throw("Cannot divide by zero!") ELSE Return(Quotient(a, b))

\* isValidNumber converting with Number(input), for which '' is 0.
isValidNumber_EmptyIsZero(input) == input = <<>> \/ ~isNaN(parseFloat(input))

isValidNumber(input) == ~isNaN(parseFloat(input))

\* isValidOperation taking x for the multiplication sign.
isValidOperation_Alias(op) ==
    op = "+" \/ op = "-" \/ op = "*" \/ op = "/" \/ op = "x" \/ op = "X"

isValidOperation(op) == op = "+" \/ op = "-" \/ op = "*" \/ op = "/"

\* wantsToQuit taking 'n' for 'no'.
wantsToQuit_AcceptsN(input) ==
    LET lowerInput == Join(trim(toLowerCase(input)))
    IN lowerInput = "q" \/ lowerInput = "quit" \/ lowerInput = "no" \/ lowerInput = "n"

wantsToQuit(input) ==
    LET lowerInput == Join(trim(toLowerCase(input)))
    IN lowerInput = "q" \/ lowerInput = "quit" \/ lowerInput = "no"

\* `${a} ${op} ${b} = ${r}`
calculationString(a, op, b, r) ==
    NumberToString(a) \o " " \o op \o " " \o NumberToString(b) \o " = " \o NumberToString(r)

\* The numbering with `${index}` in place of `${index + 1}`.
NumberedLines_FromZero(h) == [i \in 1..Len(h) |-> NatToString(i - 1) \o ". " \o h[i]]

\* `${index + 1}. ${calc}` for every entry of a history
NumberedLines(h) == [i \in 1..Len(h) |-> NatToString(i) \o ". " \o h[i]]

(***************************************************************************)
(* The terminal program, src/src/index.ts.                                 *)
(***************************************************************************)
HistoryHeader == "=== Calculation History ==="
EmptyHistoryLine == "No calculations in history yet."
InvalidNumberLine == "Error: That is not a valid number. Please try again."
InvalidOperationLine == "Error: Invalid operation! Valid options are: +, -, *, /"

\* showHistory printing the newest calculation first.
showHistory_NewestFirst(h) ==
    IF Len(h) = 0 THEN <<"", EmptyHistoryLine, "">>
    ELSE <<"", HistoryHeader>>
         \o [i \in 1..Len(h) |-> NatToString(i) \o ". " \o h[Len(h) + 1 - i]]
         \o <<"">>

\* What showHistory prints for history h.
showHistory(h) ==
    IF Len(h) = 0 THEN <<"", EmptyHistoryLine, "">>
    ELSE <<"", HistoryHeader>> \o NumberedLines(h) \o <<"">>

\* clearHistory dropping the newest record only.
clearHistory_DropsLast(h) == IF Len(h) = 0 THEN h ELSE SubSeq(h, 1, Len(h) - 1)

\* The history clearHistory leaves.
clearHistory(h) == <<>>

\* push skipping a calculation the history already holds.
push_Deduplicated(h, calc) ==
    IF \E i \in 1..Len(h) : h[i] = calc THEN h ELSE Append(h, calc)

\* The history calculationHistory.push(calc) leaves.
push(h, calc) == Append(h, calc)

\* The try block with the '-' branch calling add.
Compute_SubtractAdds(a, b, op) ==
    IF op = "+" THEN Return(add(a, b))
    ELSE IF op = "-" THEN Return(add(a, b))
    ELSE IF op = "*" THEN Return(multiply(a, b))
    ELSE divide(a, b)

\* The try block of performCalculation: the outcome of the arithmetic call.
Compute(a, b, op) ==
    IF op = "+" THEN Return(add(a, b))
    ELSE IF op = "-" THEN Return(subtract(a, b))
    ELSE IF op = "*" THEN Return(multiply(a, b))
    ELSE divide(a, b)

\* The answers the model gives to the prompts.  The first operand is 10, 2.5
\* or 0 and the second 5 or 0, written in several ways; the other texts do
\* not parse.
InvalidNumberTexts ==
    { <<"a", "b", "c">>, <<>>, <<" ">>, <<"q">>, <<"q", "u", "i", "t">>, <<"n", "o">>,
      <<"+">>, <<".">> }

Operand1Texts ==
    { <<"1", "0">>, <<"1", "0", "a", "b", "c">>, <<"2", ".", "5">>, <<"0">>,
      <<"-", "0">> } \cup InvalidNumberTexts

Operand2Texts ==
    { <<"5">>, <<" ", "5">>, <<"+", "5", ".", "0", "0">>, <<"0">>, <<"0", ".", "0">> }
        \cup InvalidNumberTexts

OperatorTexts ==
    { <<"+">>, <<"-">>, <<"*">>, <<"/">>, <<" ", "+">>, <<"+", " ">>, <<"x">>,
      <<"X">>, <<"+", "+">>, <<>>, <<"q">>, <<"q", "u", "i", "t">>, <<"n", "o">> }

ContinuationTexts ==
    { <<>>, <<"h", "i", "s", "t", "o", "r", "y">>,
      <<" ", "H", "i", "s", "t", "o", "r", "y", " ">>,
      <<"c", "l", "e", "a", "r">>, <<"C", "L", "E", "A", "R", "\t">>,
      <<"q">>, <<"Q">>, <<"q", "u", "i", "t">>, <<" ", "N", "o", " ">>,
      <<"n">>, <<"e", "x", "i", "t">>, <<"y", "e", "s">>,
      <<"h", "i", "s", "t", "o", "r", "y", "!">> }

FirstNumberQuestion == "Enter the first number: "
SecondNumberQuestion == "Enter the second number: "
OperationQuestion == "Enter the operation (+, -, *, /): "
ContinuationQuestion ==
    "Calculate again? (Press Enter to continue, type \"history\" to view past calculations, "
    \o "type \"clear\" to clear history, or type q/quit/no to exit): "

\* askQuestion: rl.question takes the question, which is pending until its
\* callback is called with the answer.
askQuestion(questions, question) == Append(questions, question)

\* The callback of rl.question that leaves the answered question pending.
resolve_KeepsQuestion(questions) == questions

\* The callback of rl.question: the oldest pending question is answered and
\* the promise of askQuestion resolved.
resolve(questions) == Tail(questions)

TermInit ==
    /\ pc = "AwaitOperand1"
    /\ pending = askQuestion(<<>>, FirstNumberQuestion)
    /\ num1 = Undefined
    /\ num2 = Undefined
    /\ calculationHistory = <<>>
    /\ out = <<"=== Terminal Calculator ===", "">>
    /\ rlClosed = FALSE
    /\ justCleared = FALSE

\* performCalculation without its second loop: a valid first number leads
\* straight to the operation prompt.
AnswerOperand1_SkipsSecond(text) ==
    /\ TerminalRuns
    /\ pc = "AwaitOperand1"
    /\ IF isValidNumber(text)
       THEN /\ num1' = parseFloat(text)
            /\ pc' = "AwaitOperator"
            /\ pending' = askQuestion(resolve(pending), OperationQuestion)
            /\ out' = <<>>
       ELSE /\ out' = <<InvalidNumberLine, "">>
            /\ UNCHANGED <<num1, pc>>
            /\ pending' = askQuestion(resolve(pending), FirstNumberQuestion)
    /\ UNCHANGED <<num2, calculationHistory, rlClosed, justCleared>>
    /\ TerminalFrame

\* performCalculation, the first loop: the answer to 'Enter the first number: '.
AnswerOperand1(text) ==
    /\ TerminalRuns
    /\ pc = "AwaitOperand1"
    /\ IF isValidNumber(text)
       THEN /\ num1' = parseFloat(text)
            /\ pc' = "AwaitOperand2"
            /\ pending' = askQuestion(resolve(pending), SecondNumberQuestion)
            /\ out' = <<>>
       ELSE /\ out' = <<InvalidNumberLine, "">>
            /\ UNCHANGED <<num1, pc>>
            /\ pending' = askQuestion(resolve(pending), FirstNumberQuestion)
    /\ UNCHANGED <<num2, calculationHistory, rlClosed, justCleared>>
    /\ TerminalFrame

\* performCalculation with an invalid second number sending the loop back to
\* the first prompt.
AnswerOperand2_RestartsAttempt(text) ==
    /\ TerminalRuns
    /\ pc = "AwaitOperand2"
    /\ IF isValidNumber(text)
       THEN /\ num2' = parseFloat(text)
            /\ pc' = "AwaitOperator"
            /\ pending' = askQuestion(resolve(pending), OperationQuestion)
            /\ out' = <<>>
            /\ UNCHANGED num1
       ELSE /\ out' = <<InvalidNumberLine, "">>
            /\ pc' = "AwaitOperand1"
            /\ pending' = askQuestion(resolve(pending), FirstNumberQuestion)
            /\ num1' = Undefined
            /\ UNCHANGED num2
    /\ UNCHANGED <<calculationHistory, rlClosed, justCleared>>
    /\ TerminalFrame

\* performCalculation, the second loop: the answer to 'Enter the second number: '.
AnswerOperand2(text) ==
    /\ TerminalRuns
    /\ pc = "AwaitOperand2"
    /\ IF isValidNumber(text)
       THEN /\ num2' = parseFloat(text)
            /\ pc' = "AwaitOperator"
            /\ pending' = askQuestion(resolve(pending), OperationQuestion)
            /\ out' = <<>>
       ELSE /\ out' = <<InvalidNumberLine, "">>
            /\ UNCHANGED <<num2, pc>>
            /\ pending' = askQuestion(resolve(pending), SecondNumberQuestion)
    /\ UNCHANGED <<num1, calculationHistory, rlClosed, justCleared>>
    /\ TerminalFrame

\* performCalculation without the catch: the Error of divide escapes main and
\* ends the process.
AnswerOperator_Uncaught(text) ==
    /\ TerminalRuns
    /\ pc = "AwaitOperator"
    /\ LET op == Join(text)
           r == Compute(num1, num2, op)
       IN IF ~isValidOperation(op)
          THEN /\ out' = <<InvalidOperationLine, "">>
               /\ UNCHANGED <<pc, num1, num2, calculationHistory>>
               /\ pending' = askQuestion(resolve(pending), OperationQuestion)
          ELSE /\ num1' = Undefined
               /\ num2' = Undefined
               /\ IF r.threw
                  THEN /\ pc' = "Exited"
                       /\ pending' = resolve(pending)
                       /\ out' = <<>>
                       /\ UNCHANGED calculationHistory
                  ELSE /\ Len(calculationHistory) < MaxHistory
                       /\ pc' = "AwaitContinuation"
                       /\ pending' = askQuestion(resolve(pending), ContinuationQuestion)
                       /\ out' = <<"", "Result: " \o calculationString(num1, op, num2, r.value), "">>
                       /\ calculationHistory' =
                              push(calculationHistory, calculationString(num1, op, num2, r.value))
    /\ UNCHANGED <<rlClosed, justCleared>>
    /\ TerminalFrame

\* performCalculation, the third loop and the try block: the answer to
\* 'Enter the operation (+, -, *, /): '.  A valid operation is computed and
\* displayed, the function returns and main issues the continuation prompt.
\* A rejected text is held by the local `operation` only until the next
\* answer overwrites it and is never read again, so it is not kept as state.
AnswerOperator(text) ==
    /\ TerminalRuns
    /\ pc = "AwaitOperator"
    /\ LET op == Join(text)
           r == Compute(num1, num2, op)
       IN IF ~isValidOperation(op)
          THEN /\ out' = <<InvalidOperationLine, "">>
               /\ UNCHANGED <<pc, num1, num2, calculationHistory>>
               /\ pending' = askQuestion(resolve(pending), OperationQuestion)
          ELSE /\ pc' = "AwaitContinuation"
               /\ pending' = askQuestion(resolve(pending), ContinuationQuestion)
               /\ num1' = Undefined
               /\ num2' = Undefined
               /\ IF r.threw
                  THEN /\ out' = <<"", "Error: " \o r.message, "">>
                       /\ UNCHANGED calculationHistory
                  ELSE /\ Len(calculationHistory) < MaxHistory
                       /\ out' = <<"", "Result: " \o calculationString(num1, op, num2, r.value), "">>
                       /\ calculationHistory' =
                              push(calculationHistory, calculationString(num1, op, num2, r.value))
    /\ UNCHANGED <<rlClosed, justCleared>>
    /\ TerminalFrame

\* main: the answer to the 'Calculate again?' prompt.
AnswerContinuation(text) ==
    /\ TerminalRuns
    /\ pc = "AwaitContinuation"
    /\ LET trimmedInput == Join(trim(toLowerCase(text)))
       IN IF trimmedInput = "history"
          THEN /\ out' = showHistory(calculationHistory)
               /\ pc' = "AwaitOperand1"
               /\ pending' = askQuestion(resolve(pending), FirstNumberQuestion)
               /\ justCleared' = FALSE
               /\ UNCHANGED <<calculationHistory, rlClosed>>
          ELSE IF trimmedInput = "clear"
          THEN /\ calculationHistory' = clearHistory(calculationHistory)
               /\ out' = <<"", "History cleared!", "">>
               /\ pc' = "AwaitOperand1"
               /\ pending' = askQuestion(resolve(pending), FirstNumberQuestion)
               /\ justCleared' = TRUE
               /\ UNCHANGED rlClosed
          ELSE IF wantsToQuit(text)
          THEN /\ out' = <<"", "Goodbye!">>
               /\ rlClosed' = TRUE
               /\ pc' = "Done"
               /\ pending' = resolve(pending)
               /\ justCleared' = FALSE
               /\ UNCHANGED calculationHistory
          ELSE /\ out' = <<"">>
               /\ pc' = "AwaitOperand1"
               /\ pending' = askQuestion(resolve(pending), FirstNumberQuestion)
               /\ justCleared' = FALSE
               /\ UNCHANGED <<calculationHistory, rlClosed>>
    /\ UNCHANGED <<num1, num2>>
    /\ TerminalFrame

\* The SIGINT handler without process.exit(0): the input is closed and the
\* loop stays where it was.
Sigint_OnlyCloses ==
    /\ TerminalRuns
    /\ pc \in {"AwaitOperand1", "AwaitOperand2", "AwaitOperator", "AwaitContinuation"}
    /\ out' = <<"", "", "Goodbye!">>
    /\ rlClosed' = TRUE
    /\ UNCHANGED <<pc, num1, num2, calculationHistory, justCleared, pending>>
    /\ TerminalFrame

\* main: the SIGINT handler, while the loop is suspended at a prompt.
\* process.exit ends the program: the locals of the suspended call are gone,
\* and the history is kept as it was when the process ended.
Sigint ==
    /\ TerminalRuns
    /\ pc \in {"AwaitOperand1", "AwaitOperand2", "AwaitOperator", "AwaitContinuation"}
    /\ out' = <<"", "", "Goodbye!">>
    /\ rlClosed' = TRUE
    /\ pc' = "Exited"
    /\ pending' = <<>>
    /\ num1' = Undefined
    /\ num2' = Undefined
    /\ UNCHANGED <<calculationHistory, justCleared>>
    /\ TerminalFrame


(***************************************************************************)
(* The browser form, src/web/app.js (src/unnamed/part_000 is its           *)
(* TypeScript source).                                                     *)
(***************************************************************************)
ResultPlaceholder == "Result will appear here"
EmptyHistoryItem == [class |-> "history-empty", text |-> "No calculations yet"]

\* The children updateHistoryDisplay gives #historyList for history h.
updateHistoryDisplay(h) ==
    IF Len(h) = 0 THEN <<EmptyHistoryItem>>
    ELSE [i \in 1..Len(h) |->
             [class |-> "history-item", text |-> NatToString(i) \o ". " \o h[i]]]

\* addToHistory without the call of updateHistoryDisplay after the push.
addToHistory_NoRefresh(h, calculation) ==
    [history |-> Append(h, calculation), list |-> updateHistoryDisplay(h)]

\* addToHistory: the history and the list it leaves.
addToHistory(h, calculation) ==
    LET pushed == Append(h, calculation)
    IN [history |-> pushed, list |-> updateHistoryDisplay(pushed)]

\* clearHistory of app.js with the list refreshed before the array is emptied.
webClearHistory_KeepsList(h) == [history |-> <<>>, list |-> updateHistoryDisplay(h)]

\* clearHistory of app.js: the history and the list it leaves.
webClearHistory(h) == [history |-> <<>>, list |-> updateHistoryDisplay(<<>>)]

\* performCalculation of app.js with a default case that adds.
performCalculation_DefaultAdds(a, b, op) ==
    IF op = "-" THEN Return(subtract(a, b))
    ELSE IF op = "*" THEN Return(multiply(a, b))
    ELSE IF op = "/" THEN divide(a, b)
    ELSE Return(add(a, b))

\* performCalculation of app.js: the switch over the operation.
performCalculation(a, b, op) ==
    IF op = "+" THEN Return(add(a, b))
    ELSE IF op = "-" THEN Return(subtract(a, b))
    ELSE IF op = "*" THEN Return(multiply(a, b))
    ELSE IF op = "/" THEN divide(a, b)
    ELSE Throw("Invalid operation")

\* performCalculation of app.js: the arithmetic function the switch calls.
Invoked(op) ==
    IF op = "+" THEN <<"add">>
    ELSE IF op = "-" THEN <<"subtract">>
    ELSE IF op = "*" THEN <<"multiply">>
    ELSE IF op = "/" THEN <<"divide">>
    ELSE <<>>

\* handleCalculate: the check that sends the input to the error message.
invalidNumbers_Both(n1, n2) == isNaN(n1) /\ isNaN(n2)

invalidNumbers(n1, n2) == isNaN(n1) \/ isNaN(n2)

WebOperandTexts == { <<"5", "p", "x">>, <<"0">>, <<>> }
WebOperations == {"+", "-", "*", "/"}

\* The page as loaded.  Its markup is not part of the sources: the history
\* list starts with no children or with the placeholder.
WebInit ==
    /\ webHistory = <<>>
    /\ num1Value = <<>>
    /\ num2Value = <<>>
    /\ resultText = ResultPlaceholder
    /\ resultClass = "result"
    /\ historyList \in (IF WebRuns THEN {<<>>, <<EmptyHistoryItem>>} ELSE {<<>>})
    /\ webInvoked = <<>>

\* handleCalculate, run by a click on #calculateBtn or Enter in a number
\* field, once the user has left t1 and t2 in the number fields and op
\* selected.  The handlers never write the selection, so it is an input.
HandleCalculate(t1, t2, op) ==
    /\ WebRuns
    /\ num1Value' = t1
    /\ num2Value' = t2
    /\ LET n1 == parseFloat(t1)
           n2 == parseFloat(t2)
           r == performCalculation(n1, n2, op)
           calc == calculationString(n1, op, n2, r.value)
       IN IF invalidNumbers(n1, n2)
          THEN /\ resultText' = "Error: Please enter valid numbers"
               /\ resultClass' = "result error"
               /\ webInvoked' = <<>>
               /\ UNCHANGED <<webHistory, historyList>>
          ELSE IF r.threw
          THEN /\ resultText' = "Error: " \o r.message
               /\ resultClass' = "result error"
               /\ webInvoked' = Invoked(op)
               /\ UNCHANGED <<webHistory, historyList>>
          ELSE /\ Len(webHistory) < MaxHistory
               /\ webInvoked' = Invoked(op)
               /\ resultText' = calc
               /\ resultClass' = "result"
               /\ webHistory' = addToHistory(webHistory, calc).history
               /\ historyList' = addToHistory(webHistory, calc).list
    /\ WebFrame

\* handleClear with the history cleared as well.
HandleClear_ClearsHistory ==
    /\ WebRuns
    /\ num1Value' = <<>>
    /\ num2Value' = <<>>
    /\ resultText' = ResultPlaceholder
    /\ resultClass' = "result"
    /\ webInvoked' = <<>>
    /\ webHistory' = webClearHistory(webHistory).history
    /\ historyList' = webClearHistory(webHistory).list
    /\ WebFrame

\* handleClear, run by a click on #clearBtn.
HandleClear ==
    /\ WebRuns
    /\ num1Value' = <<>>
    /\ num2Value' = <<>>
    /\ resultText' = ResultPlaceholder
    /\ resultClass' = "result"
    /\ webInvoked' = <<>>
    /\ UNCHANGED <<webHistory, historyList>>
    /\ WebFrame

\* handleClearHistory, run by a click on #clearHistoryBtn.
HandleClearHistory ==
    /\ WebRuns
    /\ webHistory' = webClearHistory(webHistory).history
    /\ historyList' = webClearHistory(webHistory).list
    /\ webInvoked' = <<>>
    /\ UNCHANGED <<num1Value, num2Value, resultText, resultClass>>
    /\ WebFrame

(***************************************************************************)
(* The operation-first prompt loop, src/src/calculator.ts.                 *)
(***************************************************************************)
CalcInvalidOperationLine == "Invalid operation! Please use +, -, *, or /."
CalcInvalidNumberLine == "Invalid number! Please enter a valid number."

\* calculator: the switch over the operation.
calculatorSwitch(a, b, op) ==
    IF op = "+" THEN Return(add(a, b))
    ELSE IF op = "-" THEN Return(subtract(a, b))
    ELSE IF op = "*" THEN Return(multiply(a, b))
    ELSE IF op = "/" THEN divide(a, b)
    ELSE Throw("Invalid operation")

CalcOperationTexts ==
    { <<"+">>, <<"-">>, <<"*">>, <<"/">>, <<"q">>, <<"Q">>, <<" ", "q">>, <<"q", " ">>,
      <<"q", "u", "i", "t">>, <<"x">>, <<"+", " ">>, <<>> }
CalcFirstNumberTexts == { <<"1", "0">>, <<"0">>, <<"q">>, <<"a", "b", "c">> }
CalcSecondNumberTexts == { <<"5">>, <<"0">>, <<"q">>, <<"Q">>, <<>> }

\* calculator: the test that ends the loop, with the answer trimmed first.
quits_Trimmed(text) == Join(trim(toLowerCase(text))) = "q"

\* calculator: the test that ends the loop, operation.toLowerCase() === 'q'.
quits(text) == Join(toLowerCase(text)) = "q"

CalcFrame == UNCHANGED <<deployment, termVars, webVars, applied>>

\* calculator, up to the first prompt.
CalcInit ==
    /\ calcPc = "AwaitOperation"
    /\ calcOperation = ""
    /\ calcNum1 = Undefined
    /\ calcOut = <<"=== Terminal Calculator ===", "", "Available operations:",
                   "  + (addition)", "  - (subtraction)", "  * (multiplication)",
                   "  / (division)", "  q (quit)", "">>
    /\ calcRlClosed = FALSE

\* calculator with `continue` in place of the `break` after rl.close().
CalcAnswerOperation_KeepsAsking(text) ==
    /\ deployment = "readme"
    /\ calcPc = "AwaitOperation"
    /\ LET operation == Join(text)
       IN IF quits(text)
          THEN /\ calcOut' = <<"Goodbye!">>
               /\ calcRlClosed' = TRUE
               /\ UNCHANGED <<calcPc, calcOperation>>
          ELSE IF operation \notin {"+", "-", "*", "/"}
          THEN /\ calcOut' = <<CalcInvalidOperationLine, "">>
               /\ UNCHANGED <<calcPc, calcOperation, calcRlClosed>>
          ELSE /\ calcOperation' = operation
               /\ calcPc' = "AwaitFirstNumber"
               /\ calcOut' = <<>>
               /\ UNCHANGED calcRlClosed
    /\ UNCHANGED calcNum1
    /\ CalcFrame

\* calculator: the answer to 'Enter operation (+, -, *, /, or q to quit): '.
CalcAnswerOperation(text) ==
    /\ deployment = "readme"
    /\ calcPc = "AwaitOperation"
    /\ LET operation == Join(text)
       IN IF quits(text)
          THEN /\ calcOut' = <<"Goodbye!">>
               /\ calcRlClosed' = TRUE
               /\ calcPc' = "Done"
               /\ UNCHANGED calcOperation
          ELSE IF operation \notin {"+", "-", "*", "/"}
          THEN /\ calcOut' = <<CalcInvalidOperationLine, "">>
               /\ UNCHANGED <<calcPc, calcOperation, calcRlClosed>>
          ELSE /\ calcOperation' = operation
               /\ calcPc' = "AwaitFirstNumber"
               /\ calcOut' = <<>>
               /\ UNCHANGED calcRlClosed
    /\ UNCHANGED calcNum1
    /\ CalcFrame

\* calculator: the answer to 'Enter first number: '.  `continue` ends the
\* iteration, and with it the scope of `operation`.
CalcAnswerFirstNumber(text) ==
    /\ deployment = "readme"
    /\ calcPc = "AwaitFirstNumber"
    /\ IF isNaN(parseFloat(text))
       THEN /\ calcOut' = <<CalcInvalidNumberLine, "">>
            /\ calcPc' = "AwaitOperation"
            /\ calcOperation' = ""
            /\ UNCHANGED calcNum1
       ELSE /\ calcNum1' = parseFloat(text)
            /\ calcPc' = "AwaitSecondNumber"
            /\ calcOut' = <<>>
            /\ UNCHANGED calcOperation
    /\ UNCHANGED calcRlClosed
    /\ CalcFrame

\* calculator with the second number asked again after an invalid answer.
CalcAnswerSecondNumber_AsksAgain(text) ==
    /\ deployment = "readme"
    /\ calcPc = "AwaitSecondNumber"
    /\ LET num2Parsed == parseFloat(text)
           r == calculatorSwitch(calcNum1, num2Parsed, calcOperation)
       IN IF isNaN(num2Parsed)
          THEN /\ calcOut' = <<CalcInvalidNumberLine, "">>
               /\ UNCHANGED <<calcPc, calcOperation, calcNum1>>
          ELSE /\ IF r.threw
                  THEN calcOut' = <<"", "Error: " \o r.message, "">>
                  ELSE calcOut' = <<"", "Result: "
                                        \o calculationString(calcNum1, calcOperation, num2Parsed, r.value),
                                    "">>
               /\ calcPc' = "AwaitOperation"
               /\ calcOperation' = ""
               /\ calcNum1' = Undefined
    /\ UNCHANGED calcRlClosed
    /\ CalcFrame

\* calculator: the answer to 'Enter second number: ', the switch, the result
\* line and the catch block.
CalcAnswerSecondNumber(text) ==
    /\ deployment = "readme"
    /\ calcPc = "AwaitSecondNumber"
    /\ LET num2Parsed == parseFloat(text)
           r == calculatorSwitch(calcNum1, num2Parsed, calcOperation)
       IN IF isNaN(num2Parsed)
          THEN calcOut' = <<CalcInvalidNumberLine, "">>
          ELSE IF r.threw
          THEN calcOut' = <<"", "Error: " \o r.message, "">>
          ELSE calcOut' = <<"", "Result: "
                                \o calculationString(calcNum1, calcOperation, num2Parsed, r.value),
                            "">>
    /\ calcPc' = "AwaitOperation"
    /\ calcOperation' = ""
    /\ calcNum1' = Undefined
    /\ UNCHANGED calcRlClosed
    /\ CalcFrame

(***************************************************************************)
(* The arithmetic functions called directly, on operands drawn from        *)
(* ArithValues.                                                            *)
(***************************************************************************)
ArithValues ==
    { Zero, Num(1, 1), Num(-3, 1), Num(10, 1), Num(5, 2), NaN, Infinity, Neg(Infinity) }
ArithFunctions == {"add", "subtract", "multiply", "divide"}

NoCall == [fn |-> "none", a |-> Zero, b |-> Zero, outcome |-> Return(Undefined)]

\* The outcome of fn(a, b): the value returned or the Error thrown.
Apply(fn, a, b) ==
    IF fn = "add" THEN Return(add(a, b))
    ELSE IF fn = "subtract" THEN Return(subtract(a, b))
    ELSE IF fn = "multiply" THEN Return(multiply(a, b))
    ELSE divide(a, b)

Call(fn) ==
    /\ deployment = "functions"
    /\ applied' = [applied EXCEPT !.fn = fn, !.outcome = Apply(fn, applied.a, applied.b)]
    /\ UNCHANGED <<deployment, termVars, webVars, calcVars>>

(***************************************************************************)
(* index.ts and app.js side by side, given the same valid calculations     *)
(* and history clears: what is answered at a prompt of the terminal is     *)
(* typed into the matching field of the page, the answer to the operation  *)
(* prompt is selected and the calculate button clicked, and 'clear' at the *)
(* continuation prompt goes with a click on the clear-history button.      *)
(***************************************************************************)
PairOperand1Texts == { text \in Operand1Texts : isValidNumber(text) }
PairOperand2Texts == { text \in Operand2Texts : isValidNumber(text) }
PairOperatorTexts == { <<op>> : op \in WebOperations }

PairOperand1(text) ==
    /\ deployment = "both"
    /\ AnswerOperand1(text)
    /\ num1Value' = text
    /\ UNCHANGED <<webHistory, num2Value, resultText, resultClass, historyList, webInvoked>>

PairOperand2(text) ==
    /\ deployment = "both"
    /\ AnswerOperand2(text)
    /\ num2Value' = text
    /\ UNCHANGED <<webHistory, num1Value, resultText, resultClass, historyList, webInvoked>>

PairOperator(text) ==
    /\ deployment = "both"
    /\ AnswerOperator(text)
    /\ HandleCalculate(num1Value, num2Value, Join(text))

PairContinue ==
    /\ deployment = "both"
    /\ AnswerContinuation(<<>>)
    /\ UNCHANGED webVars

PairClearHistory ==
    /\ deployment = "both"
    /\ AnswerContinuation(<<"c", "l", "e", "a", "r">>)
    /\ HandleClearHistory

(***************************************************************************)
(* The specifications.                                                     *)
(***************************************************************************)
Init ==
    /\ deployment \in {"terminal", "web", "readme"}
    /\ TermInit
    /\ WebInit
    /\ CalcInit
    /\ applied = NoCall

Next ==
    \/ \E text \in Operand1Texts : AnswerOperand1(text)
    \/ \E text \in Operand2Texts : AnswerOperand2(text)
    \/ \E text \in OperatorTexts : AnswerOperator(text)
    \/ \E text \in ContinuationTexts : AnswerContinuation(text)
    \/ Sigint
    \/ \E t1 \in WebOperandTexts, t2 \in WebOperandTexts, op \in WebOperations :
          HandleCalculate(t1, t2, op)
    \/ HandleClear
    \/ HandleClearHistory
    \/ \E text \in CalcOperationTexts : CalcAnswerOperation(text)
    \/ \E text \in CalcFirstNumberTexts : CalcAnswerFirstNumber(text)
    \/ \E text \in CalcSecondNumberTexts : CalcAnswerSecondNumber(text)

Spec == Init /\ [][Next]_vars

\* The arithmetic functions on every pair of operands of ArithValues.
ArithInit ==
    /\ deployment = "functions"
    /\ TermInit
    /\ WebInit
    /\ CalcInit
    /\ applied \in [fn : {"none"}, a : ArithValues, b : ArithValues,
                    outcome : {Return(Undefined)}]

ArithNext == \E fn \in ArithFunctions : Call(fn)

SpecArith == ArithInit /\ [][ArithNext]_vars

\* The terminal and the page side by side.
PairInit ==
    /\ deployment = "both"
    /\ TermInit
    /\ WebInit
    /\ CalcInit
    /\ applied = NoCall

PairNext ==
    \/ \E text \in PairOperand1Texts : PairOperand1(text)
    \/ \E text \in PairOperand2Texts : PairOperand2(text)
    \/ \E text \in PairOperatorTexts : PairOperator(text)
    \/ PairContinue
    \/ PairClearHistory

SpecPair == PairInit /\ [][PairNext]_vars

\* The page with an #operation element that can also hold a value other than
\* the four operations: the options of the element are in the page's markup,
\* which is not part of the sources.
OtherOperations == {"%", ""}

AnyOperatorInit ==
    /\ deployment = "web"
    /\ TermInit
    /\ WebInit
    /\ CalcInit
    /\ applied = NoCall

AnyOperatorNext ==
    \/ \E t1 \in WebOperandTexts, t2 \in WebOperandTexts,
          op \in WebOperations \cup OtherOperations :
          HandleCalculate(t1, t2, op)
    \/ HandleClear
    \/ HandleClearHistory

SpecAnyOperator == AnyOperatorInit /\ [][AnyOperatorNext]_vars

\* index.ts with no interrupt and a user who, at each of the three prompts of
\* a calculation, does not give invalid answers for ever.
LiveOperand1Texts == { <<"1", "0">>, <<"0">>, <<"a", "b", "c">>, <<>> }
LiveOperand2Texts == { <<"5">>, <<"0">>, <<"q">>, <<".">> }
LiveOperatorTexts == { <<"+">>, <<"/">>, <<"x">>, <<"+", " ">>, <<>> }
LiveContinuationTexts ==
    { <<>>, <<"h", "i", "s", "t", "o", "r", "y">>, <<"c", "l", "e", "a", "r">>, <<"q">> }

ValidOperand1 == \E text \in LiveOperand1Texts : isValidNumber(text) /\ AnswerOperand1(text)
ValidOperand2 == \E text \in LiveOperand2Texts : isValidNumber(text) /\ AnswerOperand2(text)
ValidOperator ==
    \E text \in LiveOperatorTexts : isValidOperation(Join(text)) /\ AnswerOperator(text)

LiveInit ==
    /\ deployment = "terminal"
    /\ TermInit
    /\ WebInit
    /\ CalcInit
    /\ applied = NoCall

LiveNext ==
    \/ \E text \in LiveOperand1Texts : AnswerOperand1(text)
    \/ \E text \in LiveOperand2Texts : AnswerOperand2(text)
    \/ \E text \in LiveOperatorTexts : AnswerOperator(text)
    \/ \E text \in LiveContinuationTexts : AnswerContinuation(text)

SpecLive ==
    /\ LiveInit
    /\ [][LiveNext]_vars
    /\ WF_vars(ValidOperand1)
    /\ WF_vars(ValidOperand2)
    /\ WF_vars(ValidOperator)


(***************************************************************************)
(* The properties.                                                         *)
(***************************************************************************)
HistoryTexts ==
    { <<"h", "i", "s", "t", "o", "r", "y">>,
      <<" ", "H", "i", "s", "t", "o", "r", "y", " ">> }
ClearTexts == { <<"c", "l", "e", "a", "r">>, <<"C", "L", "E", "A", "R", "\t">> }
QuitTexts == { <<"q">>, <<"Q">>, <<"q", "u", "i", "t">>, <<" ", "N", "o", " ">> }
OtherTexts ==
    { <<"n">>, <<"e", "x", "i", "t">>, <<"y", "e", "s">>,
      <<"h", "i", "s", "t", "o", "r", "y", "!">> }

DivisionByZeroLines == <<"", "Error: Cannot divide by zero!", "">>

C1_Terminal ==
    (pc = "AwaitOperator" /\ num2 = Zero /\ AnswerOperator(<<"/">>))
        => /\ pc' = "AwaitContinuation"
           /\ out' = DivisionByZeroLines
           /\ calculationHistory' = calculationHistory

C1_Web ==
    \A t1 \in { <<"5", "p", "x">>, <<"0">> } :
        (deployment = "web" /\ HandleCalculate(t1, <<"0">>, "/"))
            => /\ resultText' = "Error: Cannot divide by zero!"
               /\ resultClass' = "result error"
               /\ webHistory' = webHistory
               /\ historyList' = historyList

\* C1: in both front ends a Compute step with operator '/' and a second
\* operand equal to zero displays 'Error: Cannot divide by zero!' and leaves
\* the history exactly as it was, whatever the history holds.
C1_DivisionByZero == [][C1_Terminal /\ C1_Web]_vars

C1_Witness ==
    /\ deployment = "terminal"
    /\ pc = "AwaitContinuation"
    /\ out = DivisionByZeroLines
    /\ Len(calculationHistory) = MaxHistory

\* What the terminal prints for a history h: the sentinel between blank
\* lines, or a header and one numbered line for each record.
TerminalRendering(h, lines) ==
    IF Len(h) = 0
    THEN lines = <<"", "No calculations in history yet.", "">>
    ELSE /\ Len(lines) = Len(h) + 3
         /\ lines[1] = ""
         /\ lines[2] = "=== Calculation History ==="
         /\ \A i \in 1..Len(h) : lines[i + 2] = ToString(i) \o ". " \o h[i]
         /\ lines[Len(lines)] = ""

\* What the page lists for a history h.
WebRendering(h, items) ==
    IF Len(h) = 0
    THEN items = <<[class |-> "history-empty", text |-> "No calculations yet"]>>
    ELSE /\ Len(items) = Len(h)
         /\ \A i \in 1..Len(h) :
                items[i] = [class |-> "history-item", text |-> ToString(i) \o ". " \o h[i]]

\* The step is handleCalculate run on what the number fields now hold.
IsHandleCalculate ==
    /\ deployment = "web"
    /\ \E op \in {"+", "-", "*", "/"} : HandleCalculate(num1Value', num2Value', op)

C2_Terminal ==
    /\ \A text \in HistoryTexts :
           (pc = "AwaitContinuation" /\ AnswerContinuation(text))
               => TerminalRendering(calculationHistory, out')
    /\ \A text \in ClearTexts :
           (pc = "AwaitContinuation" /\ AnswerContinuation(text))
               => Len(calculationHistory') = 0
    /\ (pc = "AwaitOperator" /\ pc' = "AwaitContinuation" /\ out' # DivisionByZeroLines)
           => Len(calculationHistory') = Len(calculationHistory) + 1

C2_Web ==
    /\ (IsHandleCalculate /\ resultClass' = "result")
           => /\ Len(webHistory') = Len(webHistory) + 1
              /\ WebRendering(webHistory', historyList')
    /\ (deployment = "web" /\ HandleClearHistory)
           => /\ Len(webHistory') = 0
              /\ WebRendering(webHistory', historyList')

\* C2: every successful calculation makes the history one record longer, and
\* a history of n >= 1 records is rendered as exactly n record lines, line i
\* being '<i>. <record i>' in the order of the history (the terminal frames
\* them with a header line and blank lines); after a clear the history is
\* empty, and an empty history is rendered as the sentinel and no record line.
C2_RenderedHistory == [][C2_Terminal /\ C2_Web]_vars

C2_Witness ==
    /\ deployment = "terminal"
    /\ pc = "AwaitOperand1"
    /\ Len(calculationHistory) = 2
    /\ Len(out) = 5
    /\ out[3] = "1. " \o calculationHistory[1]
    /\ out[4] = "2. " \o calculationHistory[2]
    /\ calculationHistory[1] # calculationHistory[2]

C3_Step ==
    \A text \in HistoryTexts :
        (pc = "AwaitContinuation" /\ Len(calculationHistory) = 2 /\ AnswerContinuation(text))
            => /\ out' = <<"", "=== Calculation History ===",
                           "1. " \o calculationHistory[1],
                           "2. " \o calculationHistory[2], "">>
               /\ calculationHistory' = calculationHistory
               /\ pc' = "AwaitOperand1"
               /\ num1' = Undefined
               /\ num2' = Undefined

EmptyHistoryLines == <<"", "No calculations in history yet.", "">>

C4_OriginalStep ==
    \A text \in HistoryTexts :
        (pc = "AwaitContinuation" /\ justCleared /\ AnswerContinuation(text))
            => out' = EmptyHistoryLines

\* C4 as stated: 'clear' followed by 'history' at the next continuation
\* prompt prints the empty-history sentinel, whatever is entered in between.
C4_Original == [][C4_OriginalStep]_vars

C4_Step ==
    \A text \in HistoryTexts :
        (pc = "AwaitContinuation" /\ justCleared /\ AnswerContinuation(text))
            => IF out = DivisionByZeroLines
               THEN out' = EmptyHistoryLines
               ELSE /\ Len(calculationHistory) = 1
                    /\ out = <<"", "Result: " \o calculationHistory[1], "">>
                    /\ out' = <<"", "=== Calculation History ===",
                                "1. " \o calculationHistory[1], "">>

\* C4: in the terminal loop the loop performs one calculation between the
\* continuation input 'clear' and the next continuation input; 'history'
\* given as that next input prints the empty-history sentinel when the
\* calculation failed with a division by zero, and otherwise prints exactly
\* the one record of that calculation, numbered 1.
C4_ClearThenHistory == [][C4_Step]_vars

C4_Witness ==
    /\ deployment = "terminal"
    /\ pc = "AwaitContinuation"
    /\ justCleared
    /\ out = DivisionByZeroLines
    /\ calculationHistory = <<>>

\* h2 is h1 with exactly one record added at the end.
ExtendsByOne(h1, h2) == Len(h2) = Len(h1) + 1 /\ SubSeq(h2, 1, Len(h1)) = h1

C5_Terminal ==
    /\ \/ calculationHistory' = calculationHistory
       \/ ExtendsByOne(calculationHistory, calculationHistory')
       \/ /\ calculationHistory' = <<>>
          /\ pc = "AwaitContinuation"
          /\ \E text \in ClearTexts : AnswerContinuation(text)
    /\ (pc = "AwaitOperator" /\ pc' = "AwaitContinuation" /\ out' # DivisionByZeroLines)
           => /\ ExtendsByOne(calculationHistory, calculationHistory')
              /\ out' = <<"", "Result: " \o calculationHistory'[Len(calculationHistory')], "">>

C5_Web ==
    /\ \/ webHistory' = webHistory
       \/ ExtendsByOne(webHistory, webHistory')
       \/ webHistory' = <<>> /\ HandleClearHistory
    /\ (IsHandleCalculate /\ resultClass' = "result")
           => /\ ExtendsByOne(webHistory, webHistory')
              /\ webHistory'[Len(webHistory')] = resultText'

\* C5: every step of either front end leaves the history unchanged, or adds
\* exactly one record at its end with the earlier records kept in place, or,
\* on an explicit clear, empties it; every successful calculation adds its
\* record, also when the history already holds an identical one.
C5_AppendOnly == [][C5_Terminal /\ C5_Web]_vars

C5_Witness ==
    /\ deployment = "terminal"
    /\ pc = "AwaitContinuation"
    /\ calculationHistory = <<"10 + 5 = 15", "10 + 5 = 15">>

ValidOperations == {"+", "-", "*", "/"}

\* The arithmetic function that matches an operator, applied to a and b.
Matching(op, a, b) ==
    CASE op = "+" -> add(a, b)
      [] op = "-" -> subtract(a, b)
      [] op = "*" -> multiply(a, b)
      [] op = "/" -> divide(a, b).value

\* '<operand1> <operator> <operand2> = <result>'
Record(a, op, b) ==
    NumberToString(a) \o " " \o op \o " " \o NumberToString(b) \o " = "
        \o NumberToString(Matching(op, a, b))

C6_Terminal ==
    \A op \in ValidOperations :
        (pc = "AwaitOperator" /\ AnswerOperator(<<op>>) /\ ~(op = "/" /\ num2 = Zero))
            => /\ calculationHistory' = Append(calculationHistory, Record(num1, op, num2))
               /\ out' = <<"", "Result: " \o Record(num1, op, num2), "">>

C6_Web ==
    \A op \in ValidOperations :
        LET a == parseFloat(num1Value')
            b == parseFloat(num2Value')
        IN (/\ deployment = "web"
            /\ HandleCalculate(num1Value', num2Value', op)
            /\ ~isNaN(a) /\ ~isNaN(b) /\ ~(op = "/" /\ b = Zero))
               => /\ webHistory' = Append(webHistory, Record(a, op, b))
                  /\ resultText' = Record(a, op, b)

C6_Scenario ==
    /\ (pc = "AwaitOperator" /\ num1 = Num(10, 1) /\ num2 = Num(5, 1)
            /\ AnswerOperator(<<"+">>))
           => /\ out' = <<"", "Result: 10 + 5 = 15", "">>
              /\ calculationHistory = <<>> => calculationHistory' = <<"10 + 5 = 15">>
    /\ \A text \in HistoryTexts :
           (pc = "AwaitContinuation" /\ calculationHistory = <<"10 + 5 = 15">>
                /\ AnswerContinuation(text))
               => out' = <<"", "=== Calculation History ===", "1. 10 + 5 = 15", "">>

\* C6: a successful Compute appends exactly one record
\* '<operand1> <operator> <operand2> = <result>' to the end of the history,
\* the result being the matching arithmetic function applied to the operands,
\* and displays that same record (after 'Result: ' in the terminal); for '+',
\* 10 and 5 the terminal prints 'Result: 10 + 5 = 15' and a history that was
\* empty is rendered as '1. 10 + 5 = 15'.
C6_SuccessfulCompute == [][C6_Terminal /\ C6_Web /\ C6_Scenario]_vars

C6_Witness ==
    /\ deployment = "terminal"
    /\ pc = "AwaitOperand1"
    /\ calculationHistory = <<"10 + 5 = 15">>
    /\ out = <<"", "=== Calculation History ===", "1. 10 + 5 = 15", "">>

InvalidNumberLines == <<"Error: That is not a valid number. Please try again.", "">>

C7_Step ==
    \A text \in InvalidNumberTexts :
        /\ (pc = "AwaitOperand1" /\ AnswerOperand1(text))
               => /\ pc' = "AwaitOperand1"
                  /\ out' = InvalidNumberLines
                  /\ UNCHANGED <<num1, num2, calculationHistory>>
        /\ (pc = "AwaitOperand2" /\ AnswerOperand2(text))
               => /\ pc' = "AwaitOperand2"
                  /\ out' = InvalidNumberLines
                  /\ UNCHANGED <<num1, num2, calculationHistory>>

\* C7: in the terminal loop a text that does not parse to a number, entered at
\* the first-operand or the second-operand prompt, prints an error and leaves
\* the loop at that same prompt: it does not advance, it keeps the operand
\* already accepted and it leaves the history unchanged, at every such input.
C7_InvalidOperand == [][C7_Step]_vars

C7_Witness ==
    /\ deployment = "terminal"
    /\ pc = "AwaitOperand2"
    /\ num1 = Num(10, 1)
    /\ out = InvalidNumberLines
    /\ Len(calculationHistory) = 1

InvalidOperationLines ==
    <<"Error: Invalid operation! Valid options are: +, -, *, /", "">>

C8_Step ==
    \A text \in OperatorTexts :
        (pc = "AwaitOperator" /\ AnswerOperator(text))
            => IF text \in { <<"+">>, <<"-">>, <<"*">>, <<"/">> }
               THEN /\ pc' = "AwaitContinuation"
                    /\ out' # InvalidOperationLines
               ELSE /\ pc' = "AwaitOperator"
                    /\ out' = InvalidOperationLines
                    /\ UNCHANGED <<num1, num2, calculationHistory>>

\* C8: in the terminal loop the operator prompt goes on to Compute if and
\* only if the text entered is exactly '+', '-', '*' or '/'; any other text,
\* such as ' +', '+ ' or 'x', prints an error, leaves the loop at the operator
\* prompt with both operands kept and leaves the history unchanged.
C8_OperatorValidity == [][C8_Step]_vars

C8_Witness ==
    /\ deployment = "terminal"
    /\ pc = "AwaitOperator"
    /\ num1 = Num(10, 1)
    /\ num2 = Num(5, 1)
    /\ out = InvalidOperationLines

C9_Step ==
    /\ \A text \in QuitTexts :
           (pc = "AwaitContinuation" /\ AnswerContinuation(text))
               => /\ pc' = "Done"
                  /\ calculationHistory' = calculationHistory
    /\ \A text \in OtherTexts \cup { <<>> } :
           (pc = "AwaitContinuation" /\ AnswerContinuation(text))
               => /\ AnswerContinuation(<<>>)
                  /\ pc' = "AwaitOperand1"
                  /\ out' = <<"">>
                  /\ calculationHistory' = calculationHistory

\* C9: at the continuation prompt of the terminal loop 'q', 'quit' and 'no',
\* in any case and with white space around them, end the loop; every token
\* other than those, 'history' and 'clear' (such as 'n', 'exit', 'yes') does
\* what the empty input does: the loop goes to the first-operand prompt with
\* the history unchanged.
C9_Continuation == [][C9_Step]_vars

C9_Witness ==
    /\ deployment = "terminal"
    /\ pc = "AwaitOperand1"
    /\ out = <<"">>
    /\ ~justCleared
    /\ Len(calculationHistory) = 2

Ended == {"Done", "Exited"}

C10_Step ==
    /\ (pc \notin Ended /\ pc' \in Ended)
           => \/ pc = "AwaitContinuation" /\ \E text \in QuitTexts : AnswerContinuation(text)
              \/ Sigint /\ pc' = "Exited"
    /\ (pc \in {"AwaitOperand1", "AwaitOperand2", "AwaitOperator"} /\ pc' \in Ended)
           => Sigint /\ pc' = "Exited"

\* C10: the terminal loop ends only by a quit token entered at the
\* continuation prompt or by the interrupt signal: no text entered at an
\* operand or operator prompt, 'q', 'quit' and 'no' included, and no failed
\* calculation ends it.
C10_OnlyQuitOrInterrupt == [][C10_Step]_vars

C10_Witness ==
    /\ deployment = "terminal"
    /\ pc = "Done"
    /\ out = <<"", "Goodbye!">>
    /\ rlClosed
    /\ Len(calculationHistory) = 0

(***************************************************************************)
(* C11.  An interrupt can arrive while index.ts is suspended at any of its *)
(* four prompts, and it ends the program at once: the step of the SIGINT   *)
(* handler leaves the program exited with the input closed, prints only    *)
(* the farewell (no result line), computes nothing and appends no record;  *)
(* and once the program has exited no prompt is answered and nothing       *)
(* changes any more, the history included.                                 *)
(***************************************************************************)
Prompts == {"AwaitOperand1", "AwaitOperand2", "AwaitOperator", "AwaitContinuation"}

C11_Step ==
    /\ (deployment = "terminal" /\ pc \in Prompts /\ Sigint) =>
           /\ pc' = "Exited"
           /\ rlClosed'
           /\ out' = <<"", "", "Goodbye!">>
           /\ calculationHistory' = calculationHistory
    /\ (deployment = "terminal" /\ pc = "Exited") =>
           /\ UNCHANGED termVars
           /\ \A text \in Operand1Texts \cup Operand2Texts \cup OperatorTexts \cup ContinuationTexts :
                  /\ ~AnswerOperand1(text)
                  /\ ~AnswerOperand2(text)
                  /\ ~AnswerOperator(text)
                  /\ ~AnswerContinuation(text)

C11_InterruptEndsAtOnce ==
    /\ []((deployment = "terminal" /\ pc \in Prompts) => ENABLED Sigint)
    /\ [][C11_Step]_vars

C11_Witness ==
    /\ deployment = "terminal"
    /\ pc = "Exited"
    /\ rlClosed
    /\ out = <<"", "", "Goodbye!">>
    /\ Len(calculationHistory) = 1

(***************************************************************************)
(* C12.  Whenever a terminal program has ended, its readline input has     *)
(* been closed, and once the input is closed no prompt is pending: in      *)
(* index.ts the input is closed exactly in the states reached by a quit    *)
(* token or by the interrupt, in calculator.ts exactly in the state        *)
(* reached by 'q'.                                                         *)
(***************************************************************************)
C12_ClosedBeforeEnd ==
    /\ deployment = "terminal" =>
           /\ pc \in Ended => rlClosed
           /\ rlClosed => pc \notin Prompts
    /\ deployment = "readme" =>
           /\ calcPc = "Done" => calcRlClosed
           /\ calcRlClosed => calcPc \notin {"AwaitOperation", "AwaitFirstNumber", "AwaitSecondNumber"}

C12_Witness ==
    /\ deployment = "readme"
    /\ calcPc = "Done"
    /\ calcRlClosed
    /\ calcOut = <<"Goodbye!">>

(***************************************************************************)
(* C13.  A run of the page's handleCalculate in which either operand field *)
(* parses to NaN shows 'Error: Please enter valid numbers' in the error    *)
(* style, calls no arithmetic function and leaves the history and the      *)
(* rendered list as they were; with two operands that parse, the function  *)
(* of the selected operation is called.                                    *)
(***************************************************************************)
C13_Step ==
    (deployment = "web" /\ IsHandleCalculate) =>
        IF isNaN(parseFloat(num1Value')) \/ isNaN(parseFloat(num2Value'))
        THEN /\ resultText' = "Error: Please enter valid numbers"
             /\ resultClass' = "result error"
             /\ webInvoked' = <<>>
             /\ webHistory' = webHistory
             /\ historyList' = historyList
        ELSE /\ Len(webInvoked') = 1
             /\ resultText' # "Error: Please enter valid numbers"

C13_InvalidWebOperands == [][C13_Step]_vars

C13_Witness ==
    /\ deployment = "web"
    /\ num1Value = <<"5", "p", "x">>
    /\ num2Value = <<>>
    /\ resultText = "Error: Please enter valid numbers"
    /\ resultClass = "result error"
    /\ Len(webHistory) = 1
    /\ historyList = updateHistoryDisplay(webHistory)

(***************************************************************************)
(* C14.  Called on any operands, divide(a, b) throws the Error 'Cannot     *)
(* divide by zero!' when b is zero, whatever a is (zero included), and     *)
(* otherwise returns the quotient a / b of JavaScript's numbers; add,      *)
(* subtract and multiply always return.                                    *)
(***************************************************************************)
\* q is a / b for b other than zero: the IEEE 754 quotient, with NaN from a
\* NaN operand and from Infinity / Infinity.
IsQuotient(q, a, b) ==
    IF isNaN(a) \/ isNaN(b) \/ (a.d = 0 /\ b.d = 0) THEN isNaN(q)
    ELSE IF a.d = 0 THEN q.d = 0 /\ q.n = a.n * Sign(b.n)
    ELSE IF b.d = 0 THEN q = Zero
    ELSE q.d > 0 /\ q.n * b.n * a.d = a.n * b.d * q.d

C14_Arithmetic ==
    /\ applied.fn = "divide" =>
           IF applied.b = Zero
           THEN /\ applied.outcome.threw
                /\ applied.outcome.message = "Cannot divide by zero!"
           ELSE /\ ~applied.outcome.threw
                /\ IsQuotient(applied.outcome.value, applied.a, applied.b)
    /\ applied.fn \in {"add", "subtract", "multiply"} => ~applied.outcome.threw

C14_Witness ==
    /\ applied.fn = "divide"
    /\ applied.a = Zero
    /\ applied.b = Zero
    /\ applied.outcome.threw
    /\ applied.outcome.message = "Cannot divide by zero!"

(***************************************************************************)
(* C15.  Clearing is always possible, an empty history included, and it    *)
(* is idempotent.  In the page a clear-history click leaves the history    *)
(* empty and the list showing the sentinel, and a second click right after *)
(* changes nothing.  In the terminal 'clear' at the continuation prompt    *)
(* leaves one and the same state whatever the history was: empty history,  *)
(* 'History cleared!' printed, the loop at the first operand prompt.       *)
(***************************************************************************)
ClearedLines == <<"", "History cleared!", "">>

C15_Step ==
    /\ (deployment = "web" /\ HandleClearHistory) =>
           /\ webHistory' = <<>>
           /\ historyList' = <<EmptyHistoryItem>>
           /\ (webHistory = <<>> /\ historyList = <<EmptyHistoryItem>> /\ webInvoked = <<>>)
                  => UNCHANGED vars
    /\ (deployment = "terminal" /\ pc = "AwaitContinuation"
            /\ \E text \in ClearTexts : AnswerContinuation(text)) =>
           termVars' = <<"AwaitOperand1", Undefined, Undefined, <<>>, ClearedLines, FALSE, TRUE,
                         <<FirstNumberQuestion>>>>

C15_ClearIdempotent ==
    /\ [](deployment = "web" => ENABLED HandleClearHistory)
    /\ []((deployment = "terminal" /\ pc = "AwaitContinuation" /\ calculationHistory = <<>>)
             => ENABLED AnswerContinuation(<<"c", "l", "e", "a", "r">>))
    /\ [][C15_Step]_vars

C15_Witness ==
    /\ deployment = "terminal"
    /\ pc = "AwaitOperand1"
    /\ justCleared
    /\ calculationHistory = <<>>
    /\ out = ClearedLines

(***************************************************************************)
(* C16.  In calculator.ts the answers 'q' and 'Q' to the operation prompt  *)
(* end the loop and print 'Goodbye!', and nothing else ends it: no other   *)
(* answer to the operation prompt does, and no answer to a number prompt   *)
(* does ('q', an invalid number and a division by zero included).          *)
(***************************************************************************)
CalcQuitTexts == { <<"q">>, <<"Q">> }

C16_Step ==
    /\ (deployment = "readme" /\ calcPc = "AwaitOperation") =>
           /\ \A text \in CalcQuitTexts :
                  CalcAnswerOperation(text) => calcPc' = "Done" /\ calcOut' = <<"Goodbye!">>
           /\ \A text \in CalcOperationTexts \ CalcQuitTexts :
                  CalcAnswerOperation(text) => calcPc' \in {"AwaitOperation", "AwaitFirstNumber"}
    /\ (deployment = "readme" /\ calcPc \in {"AwaitFirstNumber", "AwaitSecondNumber"}) =>
           calcPc' # "Done"

C16_OnlyQuitEndsLoop ==
    /\ []((deployment = "readme" /\ calcPc = "AwaitOperation")
             => ENABLED CalcAnswerOperation(<<"Q">>))
    /\ [][C16_Step]_vars

C16_Witness ==
    /\ deployment = "readme"
    /\ calcPc = "AwaitOperation"
    /\ calcOut = <<"", "Error: Cannot divide by zero!", "">>
    /\ ~calcRlClosed

(***************************************************************************)
(* C17.  Side by side and started with empty histories, index.ts and       *)
(* app.js given the same valid calculations and the same history clears    *)
(* hold equal histories after every step: the same record is appended by   *)
(* both on success, neither changes on a division by zero, and both are    *)
(* emptied by a clear.                                                     *)
(***************************************************************************)
C17_EqualHistories ==
    deployment = "both" => calculationHistory = webHistory

C17_Witness ==
    /\ deployment = "both"
    /\ pc = "AwaitContinuation"
    /\ Len(calculationHistory) = MaxHistory
    /\ webHistory = calculationHistory
    /\ out = <<"", "Error: Cannot divide by zero!", "">>
    /\ resultText = "Error: Cannot divide by zero!"

(***************************************************************************)
(* C18.  In the page the rendered list agrees with the history array after *)
(* every step that appends a record or clears the history (the sentinel    *)
(* when the array is empty, otherwise one item per record numbered from 1  *)
(* in order); no handler turns an agreeing list into a stale one; and the  *)
(* only state in which the two disagree is the page as loaded with an      *)
(* unrendered list, before the first append or clear.                      *)
(***************************************************************************)
C18_Step ==
    deployment = "web" =>
        /\ (webHistory' # webHistory \/ HandleClearHistory)
               => WebRendering(webHistory', historyList')
        /\ WebRendering(webHistory, historyList)
               => WebRendering(webHistory', historyList')
        /\ ~WebRendering(webHistory, historyList)
               => webHistory = <<>> /\ historyList = <<>>

C18_ListAgreesWithHistory == [][C18_Step]_vars

C18_Witness ==
    /\ deployment = "web"
    /\ Len(webHistory) = MaxHistory
    /\ WebRendering(webHistory, historyList)
    /\ resultText = "Error: Please enter valid numbers"

(***************************************************************************)
(* C19.  The page's handleClear empties both operand fields and puts the   *)
(* result region back to 'Result will appear here' in the plain style,     *)
(* and leaves the history and the rendered list as they were.  The history *)
(* is changed by nothing but a successful calculation and the              *)
(* clear-history handler.                                                  *)
(***************************************************************************)
C19_Step ==
    deployment = "web" =>
        /\ HandleClear =>
               /\ num1Value' = <<>>
               /\ num2Value' = <<>>
               /\ resultText' = "Result will appear here"
               /\ resultClass' = "result"
               /\ webHistory' = webHistory
               /\ historyList' = historyList
        /\ webHistory' # webHistory =>
               \/ IsHandleCalculate /\ resultClass' = "result" /\ resultText' # "Result will appear here"
               \/ HandleClearHistory

C19_ClearKeepsHistory == [][C19_Step]_vars

C19_Witness ==
    /\ deployment = "web"
    /\ num1Value = <<>>
    /\ num2Value = <<>>
    /\ resultText = "Result will appear here"
    /\ resultClass = "result"
    /\ Len(webHistory) = MaxHistory
    /\ Len(historyList) = MaxHistory

(***************************************************************************)
(* C20.  index.ts issues its prompts in the order first operand, second    *)
(* operand, operator, continuation: an answer either repeats the prompt it *)
(* was given to or leads to the next one in that order, and the            *)
(* continuation prompt, issued once after each display, leads to the first *)
(* operand prompt or to the end.  The second prompt is pending only with   *)
(* an accepted first operand, the operator prompt only with both operands  *)
(* accepted, and a result or an error is displayed, and a record appended, *)
(* only by the step that accepts a valid operator after them.              *)
(***************************************************************************)
Accepted(x) == x # Undefined /\ ~isNaN(x)

PromptOrder ==
    { <<"AwaitOperand1", "AwaitOperand1">>, <<"AwaitOperand1", "AwaitOperand2">>,
      <<"AwaitOperand2", "AwaitOperand2">>, <<"AwaitOperand2", "AwaitOperator">>,
      <<"AwaitOperator", "AwaitOperator">>, <<"AwaitOperator", "AwaitContinuation">>,
      <<"AwaitContinuation", "AwaitOperand1">>, <<"AwaitContinuation", "Done">> }

C20_Step ==
    deployment = "terminal" =>
        /\ <<pc, pc'>> \in PromptOrder \/ (pc \in Prompts /\ pc' = "Exited" /\ Sigint)
        /\ pc = "AwaitOperand1" => num1 = Undefined /\ num2 = Undefined
        /\ pc = "AwaitOperand2" => Accepted(num1) /\ num2 = Undefined
        /\ pc = "AwaitOperator" => Accepted(num1) /\ Accepted(num2)
        /\ pc = "AwaitContinuation" => num1 = Undefined /\ num2 = Undefined
        /\ (pc = "AwaitOperand1" /\ pc' = "AwaitOperand2") =>
               \E text \in Operand1Texts :
                   isValidNumber(text) /\ num1' = parseFloat(text)
        /\ (pc = "AwaitOperand2" /\ pc' = "AwaitOperator") =>
               /\ num1' = num1
               /\ \E text \in Operand2Texts :
                      isValidNumber(text) /\ num2' = parseFloat(text)
        /\ (pc = "AwaitOperator" /\ pc' = "AwaitContinuation") =>
               \E op \in ValidOperations :
                   /\ AnswerOperator(<<op>>)
                   /\ Len(out') = 3
        /\ (Len(calculationHistory') > Len(calculationHistory)) =>
               pc = "AwaitOperator" /\ pc' = "AwaitContinuation"

C20_PromptOrder == [][C20_Step]_vars

C20_Witness ==
    /\ deployment = "terminal"
    /\ pc = "AwaitOperator"
    /\ num1 = Num(5, 2)
    /\ num2 = Zero
    /\ Len(calculationHistory) = 1

(***************************************************************************)
(* C21.  In index.ts at most one question is pending at any moment: while  *)
(* the loop runs it is the question of the prompt the loop is suspended    *)
(* at, and after the end none is.  A question is issued only by the step   *)
(* that receives the answer to the pending one.  Calculations do not       *)
(* overlap: the first operand prompt of a new calculation is issued only   *)
(* by the step that answers the continuation prompt, and the continuation  *)
(* prompt only by the step that displays the previous calculation.         *)
(***************************************************************************)
Question(prompt) ==
    IF prompt = "AwaitOperand1" THEN "Enter the first number: "
    ELSE IF prompt = "AwaitOperand2" THEN "Enter the second number: "
    ELSE IF prompt = "AwaitOperator" THEN "Enter the operation (+, -, *, /): "
    ELSE ContinuationQuestion

C21_Step ==
    deployment = "terminal" =>
        /\ Len(pending) <= 1
        /\ Len(pending') <= 1
        /\ pc \in Prompts => pending = <<Question(pc)>>
        /\ pc \in Ended => pending = <<>>
        /\ (pc = "AwaitOperand1" /\ pending' # <<>>) =>
               \E text \in Operand1Texts : AnswerOperand1(text)
        /\ (pc = "AwaitOperand2" /\ pending' # <<>>) =>
               \E text \in Operand2Texts : AnswerOperand2(text)
        /\ (pc = "AwaitOperator" /\ pending' # <<>>) =>
               \E text \in OperatorTexts : AnswerOperator(text)
        /\ (pc = "AwaitContinuation" /\ pending' # <<>>) =>
               /\ \E text \in ContinuationTexts : AnswerContinuation(text)
               /\ pending' = <<"Enter the first number: ">>
        /\ (pc # "AwaitOperand1" /\ pending' = <<"Enter the first number: ">>) =>
               pc = "AwaitContinuation"
        /\ (pc # "AwaitContinuation" /\ pending' = <<ContinuationQuestion>>) =>
               /\ pc = "AwaitOperator"
               /\ Len(out') = 3
               /\ num1' = Undefined
               /\ num2' = Undefined

C21_OnePendingPrompt == [][C21_Step]_vars

C21_Witness ==
    /\ deployment = "terminal"
    /\ pc = "AwaitContinuation"
    /\ pending = <<ContinuationQuestion>>
    /\ Len(calculationHistory) = MaxHistory

(***************************************************************************)
(* C22.  In index.ts with no interrupt, if the user does not go on giving  *)
(* invalid answers for ever at any of the three prompts of a calculation,  *)
(* every attempt reaches its display, a result line or an error line, and  *)
(* with it the continuation prompt: from the first operand prompt the loop *)
(* leads to the second, from there to the operator prompt, and from there  *)
(* to the display.  (An attempt is followed while the history has room for *)
(* its record.)                                                            *)
(***************************************************************************)
Displayed ==
    /\ pc = "AwaitContinuation"
    /\ pending = <<ContinuationQuestion>>
    /\ Len(out) = 3
    /\ out[1] = ""
    /\ out[3] = ""

C22_AttemptReachesDisplay ==
    (pc \in {"AwaitOperand1", "AwaitOperand2", "AwaitOperator"}
        /\ Len(calculationHistory) < MaxHistory) ~> Displayed

C22_Witness ==
    /\ Displayed
    /\ out = <<"", "Error: Cannot divide by zero!", "">>
    /\ Len(calculationHistory) = 1

(***************************************************************************)
(* C23.  In the page, when handleCalculate runs with two operands that     *)
(* parse and an operation outside +, -, *, /, performCalculation throws    *)
(* and the result region shows 'Error: Invalid operation' in the error     *)
(* style; no arithmetic function is called and the history and the         *)
(* rendered list stay as they were.                                        *)
(***************************************************************************)
C23_Step ==
    deployment = "web" =>
        \A op \in OtherOperations :
            (/\ ~isNaN(parseFloat(num1Value'))
             /\ ~isNaN(parseFloat(num2Value'))
             /\ HandleCalculate(num1Value', num2Value', op)) =>
                /\ resultText' = "Error: Invalid operation"
                /\ resultClass' = "result error"
                /\ webInvoked' = <<>>
                /\ webHistory' = webHistory
                /\ historyList' = historyList

C23_InvalidWebOperation == [][C23_Step]_vars

C23_Witness ==
    /\ deployment = "web"
    /\ resultText = "Error: Invalid operation"
    /\ resultClass = "result error"
    /\ Len(webHistory) = 1
    /\ historyList = updateHistoryDisplay(webHistory)

(***************************************************************************)
(* C24.  In calculator.ts an answer that does not parse as a number, given *)
(* at the first-number or at the second-number prompt, abandons the        *)
(* attempt: only the invalid-number message is printed (no result line),   *)
(* the operation and the first number are discarded, and the loop is at    *)
(* the operation prompt again, not at the number prompt.                   *)
(***************************************************************************)
Abandoned ==
    /\ calcPc' = "AwaitOperation"
    /\ calcOperation' = ""
    /\ calcNum1' = Undefined
    /\ calcOut' = <<"Invalid number! Please enter a valid number.", "">>
    /\ calcRlClosed' = calcRlClosed

C24_Step ==
    deployment = "readme" =>
        /\ calcPc = "AwaitFirstNumber" =>
               \A text \in CalcFirstNumberTexts :
                   (isNaN(parseFloat(text)) /\ CalcAnswerFirstNumber(text)) => Abandoned
        /\ calcPc = "AwaitSecondNumber" =>
               /\ calcOperation \in {"+", "-", "*", "/"}
               /\ Accepted(calcNum1)
               /\ \A text \in CalcSecondNumberTexts :
                      (isNaN(parseFloat(text)) /\ CalcAnswerSecondNumber(text)) => Abandoned

C24_InvalidNumberAbandons ==
    /\ []((deployment = "readme" /\ calcPc = "AwaitSecondNumber")
             => ENABLED CalcAnswerSecondNumber(<<"q">>))
    /\ [][C24_Step]_vars

C24_Witness ==
    /\ deployment = "readme"
    /\ calcPc = "AwaitOperation"
    /\ calcOperation = ""
    /\ calcNum1 = Undefined
    /\ calcOut = <<CalcInvalidNumberLine, "">>
    /\ ~calcRlClosed

====
